---- MODULE Spec2Model ----
(***************************************************************************)
(* Model of src/vsrealcugan.py: the RealCUGAN VapourSynth wrapper.         *)
(*                                                                         *)
(*  - configuration resolution (RealCUGAN.__init__, real_cugan)            *)
(*  - the per-frame upscale (process_frame) with its chain of attempts:    *)
(*    native Python API -> command line tool -> PIL resize                 *)
(*  - the temporary directory of every command line call                   *)
(***************************************************************************)
EXTENDS Integers, Sequences, FiniteSets, TLC

(***************************************************************************)
(* Bounds of the model.                                                    *)
(***************************************************************************)
\* clip width and height range over 1..MaxDim
MaxDim == 2
\* worker threads of the host requesting frames concurrently
NumThreads == 2
\* samples of a float frame are the multiples of 1/FloatDen in [0, 1]
FloatDen == 4

(***************************************************************************)
(* Strings are sequences of characters, so that "x in s" is a real         *)
(* substring search.                                                       *)
(***************************************************************************)
Contains(s, sub) ==
    \E i \in 1..(Len(s) - Len(sub) + 1) : SubSeq(s, i, i + Len(sub) - 1) = sub

Marker2x == <<"2","x">>
Marker4x == <<"4","x">>
MarkerUp2x == <<"u","p","2","x">>
MarkerUp4x == <<"u","p","4","x">>
MarkerDenoise3x == <<"d","e","n","o","i","s","e","3","x">>
MarkerDenoise1x == <<"d","e","n","o","i","s","e","1","x">>

EmptyPath == <<>>
Path2xDenoise3x == <<"R","e","a","l","-","C","U","G","A","N","_","u","p","2","x","-","l","a","t","e","s","t","-","d","e","n","o","i","s","e","3","x",".","p","t","h">>
PathX4Conservative == <<"x","4","-","c","o","n","s","e","r","v","a","t","i","v","e",".","p","t","h">>
Path4xThen2x == <<"u","p","4","x","-","2","x","-","d","e","n","o","i","s","e","1","x",".","p","t","h">>
PathBothDenoise == <<"d","e","n","o","i","s","e","1","x","-","d","e","n","o","i","s","e","3","x",".","p","t","h">>
PathPlain == <<"m","o","d","e","l",".","p","t","h">>
Default2xPath == <<"/","m","o","d","e","l","s","/","r","e","a","l","c","u","g","a","n","/","R","e","a","l","-","C","U","G","A","N","_","u","p","2","x","-","l","a","t","e","s","t","-","d","e","n","o","i","s","e","3","x",".","p","t","h">>
Default4xPath == <<"/","m","o","d","e","l","s","/","r","e","a","l","c","u","g","a","n","/","R","e","a","l","-","C","U","G","A","N","_","u","p","4","x","-","l","a","t","e","s","t","-","c","o","n","s","e","r","v","a","t","i","v","e",".","p","t","h">>

\* model identifiers a caller passes
ModelPaths ==
    {EmptyPath, Path2xDenoise3x, PathX4Conservative, Path4xThen2x,
     PathBothDenoise, PathPlain}

DefaultTile == 256
DefaultDevice == 0
CpuDevice == -1
NoDenoise == -1

\* the arguments of a construction: every combination a caller can pass
CallerArgs ==
    [model_path : ModelPaths, scale : {2, 4}, tile : {DefaultTile},
     device_id : {CpuDevice, DefaultDevice}, noise : {NoDenoise, 3},
     tta_mode : {0, 1}, via : {"pending"}]

\* the arguments the pipeline specifications construct the upscaler with
PipelineArgs ==
    [model_path : {EmptyPath, PathX4Conservative}, scale : {2, 4},
     tile : {DefaultTile}, device_id : {DefaultDevice}, noise : {NoDenoise},
     tta_mode : {0}, via : {"pending"}]

(***************************************************************************)
(* Configuration resolution: RealCUGAN.__init__                            *)
(***************************************************************************)
\* a resolution that tests the 4x marker before the 2x marker
ResolveScale_4xFirst(model_path, scale) ==
    IF Contains(model_path, MarkerUp4x) \/ Contains(model_path, Marker4x) THEN 4
    ELSE IF Contains(model_path, MarkerUp2x) \/ Contains(model_path, Marker2x) THEN 2
    ELSE scale

ResolveScale(model_path, scale) ==
    IF Contains(model_path, MarkerUp2x) \/ Contains(model_path, Marker2x) THEN 2
    ELSE IF Contains(model_path, MarkerUp4x) \/ Contains(model_path, Marker4x) THEN 4
    ELSE scale

ResolveNoise(model_path) ==
    IF Contains(model_path, MarkerDenoise3x) THEN 3
    ELSE IF Contains(model_path, MarkerDenoise1x) THEN 1
    ELSE NoDenoise

RealCUGAN_init(device_id, model_path, scale, tile, tta_mode) ==
    [device_id  |-> device_id,
     model_path |-> model_path,
     scale      |-> ResolveScale(model_path, scale),
     tile       |-> tile,
     tta_mode   |-> tta_mode,
     noise      |-> ResolveNoise(model_path)]

\* create_real_cugan_function.real_cugan: an empty model path is replaced
\* by the default model of the requested scale; noise is not passed on
real_cugan(a) ==
    LET model_path ==
            IF a.model_path = EmptyPath
            THEN IF a.scale = 2 THEN Default2xPath ELSE Default4xPath
            ELSE a.model_path
    IN  RealCUGAN_init(a.device_id, model_path, a.scale, a.tile, a.tta_mode)

NoUpscaler == [device_id |-> 0, model_path |-> <<>>, scale |-> 0, tile |-> 0,
               tta_mode |-> 0, noise |-> 0]

(***************************************************************************)
(* The command line of the external executable                             *)
(***************************************************************************)
\* str(n) for an integer n
Digits == <<"0", "1", "2", "3", "4", "5", "6", "7", "8", "9">>

RECURSIVE StrNat(_)
StrNat(n) ==
    IF n < 10 THEN Digits[n + 1]
    ELSE StrNat(n \div 10) \o Digits[(n % 10) + 1]

Str(n) == IF n < 0 THEN "-" \o StrNat(-n) ELSE StrNat(n)

\* the path of the temporary directory named d
TempDirPath(d) == "/tmp/tmp" \o Str(d)

\* os.path.join(temp_dir, name)
PathJoin(dir, name) == dir \o "/" \o name

\* a command line that always names a GPU
BuildCmd_AlwaysGpu(u, d) ==
    <<"python3", "/usr/local/lib/realcugan/upcunet_v3.py",
      "-i", PathJoin(TempDirPath(d), "input.png"),
      "-o", PathJoin(TempDirPath(d), "output.png"),
      "-s", Str(u.scale),
      "-n", Str(u.noise),
      "-t", Str(u.tile)>>
    \o (IF u.tta_mode # 0 THEN <<"-x">> ELSE <<>>)
    \o <<"-g", Str(u.device_id)>>

\* lines 164-186: the command line of the external executable
BuildCmd(u, d) ==
    <<"python3", "/usr/local/lib/realcugan/upcunet_v3.py",
      "-i", PathJoin(TempDirPath(d), "input.png"),
      "-o", PathJoin(TempDirPath(d), "output.png"),
      "-s", Str(u.scale),
      "-n", Str(u.noise),
      "-t", Str(u.tile)>>
    \o (IF u.tta_mode # 0 THEN <<"-x">> ELSE <<>>)
    \o (IF u.device_id >= 0 THEN <<"-g", Str(u.device_id)>> ELSE <<>>)

(***************************************************************************)
(* State                                                                   *)
(***************************************************************************)
VARIABLES
    args,      \* what the caller passed to the construction, and through what
    upscaler,  \* the RealCUGAN object's fields (NoUpscaler before __init__)
    clip,      \* the clip being processed: width, height, format
    env,       \* the installation: importability of realcugan and torch
    threads,   \* how many frames the host requests concurrently
    pc,        \* per thread: position inside process_frame
    exc,       \* per thread: the exception in flight
    arr,       \* per thread: the array being processed / returned
    site,      \* per thread: the line _process_with_cli was called from
    tmpdir,    \* per thread: the temporary directory of the running CLI call
    run,       \* per thread: what subprocess.run produced
    res,       \* per thread: what process_frame returned or raised
    log,       \* per thread: attempts, failures and printed diagnostics
    fs,        \* the temporary directories that exist, with their files
    cmd,       \* per thread: the command line built by _process_with_cli
    mem        \* sample values: of the input frame's planes, of each thread's
               \* array, and the frame each thread returned

framevars == <<pc, exc, arr, site, tmpdir, run, res, log, fs, cmd, mem>>
vars == <<args, upscaler, clip, env, threads, pc, exc, arr, site, tmpdir,
          run, res, log, fs, cmd, mem>>

Threads == 1..NumThreads
\* the names tempfile can give a temporary directory
DirNames == 1..NumThreads

NoArr == [h |-> 0, w |-> 0, ch |-> 0, src |-> "none"]
NoRun == [status |-> "none", rc |-> 0]
NoRes == [kind |-> "none", w |-> 0, h |-> 0, src |-> "none"]
NoDir == [exists |-> FALSE, owner |-> 0, inp |-> FALSE, out |-> NoArr]
NoFrame == [id |-> "none", sample |-> 0]

InitFrames ==
    /\ pc = [p \in Threads |-> "idle"]
    /\ exc = [p \in Threads |-> "none"]
    /\ arr = [p \in Threads |-> NoArr]
    /\ site = [p \in Threads |-> 0]
    /\ tmpdir = [p \in Threads |-> 0]
    /\ run = [p \in Threads |-> NoRun]
    /\ res = [p \in Threads |-> NoRes]
    /\ log = [p \in Threads |-> <<>>]
    /\ fs = [d \in DirNames |-> NoDir]
    /\ cmd = [p \in Threads |-> <<>>]

\* the input frame holds one of the given samples; nothing is decoded or
\* returned yet
InitMem(samples) ==
    mem \in [input : samples, array : {[p \in Threads |-> 0]},
             output : {[p \in Threads |-> NoFrame]}]

(***************************************************************************)
(* Construction as an operation (specification SpecConfig)                 *)
(***************************************************************************)
InitConfig ==
    /\ args \in CallerArgs
    /\ upscaler = NoUpscaler
    /\ clip = [width |-> 1, height |-> 1, format |-> "RGB24"]
    /\ env = [realcugan |-> "missing", torch |-> "missing"]
    /\ threads = 1
    /\ InitFrames
    /\ InitMem({0})

\* RealCUGAN(device_id=..., model_path=..., ...) called directly
Construct ==
    /\ args.via = "pending"
    /\ upscaler' = RealCUGAN_init(args.device_id, args.model_path, args.scale,
                                  args.tile, args.tta_mode)
    /\ args' = [args EXCEPT !.via = "RealCUGAN"]
    /\ UNCHANGED <<clip, env, threads, framevars>>

\* core.realcugan(clip, model_path=..., ...)
ConstructViaEntry ==
    /\ args.via = "pending"
    /\ upscaler' = real_cugan(args)
    /\ args' = [args EXCEPT !.via = "real_cugan"]
    /\ UNCHANGED <<clip, env, threads, framevars>>

\* lines 163-186 of _process_with_cli, for the constructed upscaler: the
\* command line is built in a new temporary directory
BuildCommand ==
    /\ args.via # "pending"
    /\ cmd[1] = <<>>
    /\ \E d \in DirNames : cmd' = [cmd EXCEPT ![1] = BuildCmd(upscaler, d)]
    /\ UNCHANGED <<args, upscaler, clip, env, threads, pc, exc, arr, site,
                   tmpdir, run, res, log, fs, mem>>

NextConfig == Construct \/ ConstructViaEntry \/ BuildCommand

SpecConfig == InitConfig /\ [][NextConfig]_vars

(***************************************************************************)
(* Pure helpers of the per-frame upscale                                   *)
(***************************************************************************)
Ev(t, r) == [t |-> t, r |-> r]

\* colour planes of a VapourSynth format
Planes(format) == IF format = "GRAY8" THEN 1 ELSE 3

Formats == {"RGB24", "RGBS", "GRAY8"}

\* _vs_frame_to_array: reads planes 0, 1 and 2 and stacks them; a frame
\* with fewer planes makes get_read_array raise
VsFrameToArray(c) ==
    IF Planes(c.format) < 3
    THEN [exc |-> "IndexError", arr |-> NoArr]
    ELSE [exc |-> "none",
          arr |-> [h |-> c.height, w |-> c.width, ch |-> 3, src |-> "input"]]

\* _array_to_vs_frame: the new frame takes its size from the array; indexing
\* the third axis of a two-dimensional array raises
ArrayToVsFrame(a, c) ==
    IF a.ch < 3 \/ Planes(c.format) < 3
    THEN [exc |-> "IndexError", frame |-> NoRes]
    ELSE [exc |-> "none",
          frame |-> [kind |-> "frame", w |-> a.w, h |-> a.h, src |-> a.src]]

\* a resize that passes (height * scale, width * scale) as PIL's size
FallbackUpscaleArray_SwapsAxes(a, scale) ==
    [h |-> a.w * scale, w |-> a.h * scale, ch |-> 3, src |-> "fallback"]

\* _fallback_upscale_array: PIL resize to (width * scale, height * scale)
FallbackUpscaleArray(a, scale) ==
    [h |-> a.h * scale, w |-> a.w * scale, ch |-> 3, src |-> "fallback"]

\* the largest sample of an 8-bit plane, and the factor of lines 95 and 103
MaxSample == 255

\* the samples a plane of the format can hold: integers for the 8-bit
\* formats, numerators n of n/FloatDen for the float format
Samples(format) == IF format = "RGBS" THEN 0..FloatDen ELSE 0..MaxSample

\* black and full scale
SampleEnds(format) == {0, IF format = "RGBS" THEN FloatDen ELSE MaxSample}

\* lines 94-95: float32 samples are multiplied by 255 and truncated to
\* uint8; integer samples pass through
DecodeSample(format, n) ==
    IF format = "RGBS" THEN (n * MaxSample) \div FloatDen ELSE n

\* lines 102-103 and 125-127: a uint8 array is not converted; np.copyto
\* casts each uint8 sample v to the plane's type, so a float plane receives
\* the number v itself (numerator v * FloatDen)
EncodeSample(format, v) ==
    IF format = "RGBS" THEN v * FloatDen ELSE v

\* an encoder that writes the planes of original_frame
CopyToOriginalFrame(m, p, format, v) ==
    [m EXCEPT !.input = EncodeSample(format, v),
              !.output[p] = [id |-> "input", sample |-> EncodeSample(format, v)]]

\* lines 114-127: the planes are copied into the frame of a new BlankClip
CopyToNewFrame(m, p, format, v) ==
    [m EXCEPT !.output[p] = [id |-> "new", sample |-> EncodeSample(format, v)]]

\* the scale factors the external executable may have applied
ExeScales == {2, 4}

CorruptImage == [h |-> 0, w |-> 0, ch |-> 0, src |-> "corrupt"]

\* what the external executable may have written to output.png: an RGB image
\* of some scale, a single-channel image, or a file that is no image
ExeImages(a) ==
    {[h |-> a.h * k, w |-> a.w * k, ch |-> 3, src |-> "external"] : k \in ExeScales}
    \cup {[h |-> a.h * k, w |-> a.w * k, ch |-> 1, src |-> "external"] : k \in {2}}
    \cup {CorruptImage}

\* subprocess.run: timeout, failure to start, or an exit status
RunResults ==
    {[status |-> "timeout", rc |-> 0], [status |-> "spawn", rc |-> 0],
     [status |-> "exit", rc |-> 0], [status |-> "exit", rc |-> 1]}

\* a fixed directory name, created if missing
Mkdtemp_FixedName(f) == {1}

\* tempfile.TemporaryDirectory(): mkdtemp creates a directory that did not exist
Mkdtemp(f) == {d \in DirNames : ~f[d].exists}

\* a directory made with mkdtemp alone is never removed
Cleanup_KeepsDir(f, d) == f

\* TemporaryDirectory.__exit__: the directory and its files are removed
Cleanup(f, d) == IF d \in DirNames THEN [f EXCEPT ![d] = NoDir] ELSE f

\* os.path.exists(output_path)
OutputExists(f, d) == d \in DirNames /\ f[d].exists /\ f[d].out # NoArr

OutputOf(f, d) == IF d \in DirNames THEN f[d].out ELSE NoArr

\* _process_with_cli without the return of line 194: after a non-zero exit
\* it goes on to look for the output file
HandleRun_NoReturnAfterExit(r, exists, out, img_array, scale) ==
    IF r.status = "timeout"
    THEN [events |-> <<Ev("fail", "Timeout"), Ev("print", "ProcessingTimeout"),
                       Ev("try", "fallback"), Ev("ret", "fallback")>>,
          arr |-> FallbackUpscaleArray(img_array, scale)]
    ELSE IF r.status = "spawn"
    THEN [events |-> <<Ev("fail", "SpawnError"), Ev("print", "CliProcessingFailed"),
                       Ev("try", "fallback"), Ev("ret", "fallback")>>,
          arr |-> FallbackUpscaleArray(img_array, scale)]
    ELSE LET pre == IF r.rc # 0
                    THEN <<Ev("fail", "NonZeroExit"), Ev("print", "CliFailed"),
                           Ev("try", "fallback")>>
                    ELSE <<>>
         IN  IF exists /\ out # CorruptImage
             THEN [events |-> pre \o <<Ev("ok", "external"), Ev("ret", "external")>>,
                   arr |-> out]
             ELSE IF exists
             THEN [events |-> pre \o <<Ev("fail", "ReadOutput"),
                                       Ev("print", "CliProcessingFailed"),
                                       Ev("try", "fallback"), Ev("ret", "fallback")>>,
                   arr |-> FallbackUpscaleArray(img_array, scale)]
             ELSE [events |-> pre \o <<Ev("fail", "MissingOutput"),
                                       Ev("print", "OutputNotCreated"),
                                       Ev("try", "fallback"), Ev("ret", "fallback")>>,
                   arr |-> FallbackUpscaleArray(img_array, scale)]

\* _process_with_cli that raises on a failed run instead of resizing
HandleRun_Raises(r, exists, out, img_array, scale) ==
    IF r.status = "exit" /\ r.rc = 0 /\ exists /\ out # CorruptImage
    THEN [events |-> <<Ev("ok", "external"), Ev("ret", "external")>>, arr |-> out]
    ELSE [events |-> <<Ev("fail", IF r.status = "timeout" THEN "Timeout"
                                  ELSE IF r.status = "spawn" THEN "SpawnError"
                                  ELSE IF r.rc # 0 THEN "NonZeroExit"
                                  ELSE IF exists THEN "ReadOutput"
                                  ELSE "MissingOutput"),
                       Ev("raise", "cli")>>,
          arr |-> NoArr]

\* _process_with_cli that resizes the input even after it loaded the output
HandleRun_AlwaysResizes(r, exists, out, img_array, scale) ==
    IF r.status = "exit" /\ r.rc = 0 /\ exists /\ out # CorruptImage
    THEN [events |-> <<Ev("ok", "external"), Ev("try", "fallback"),
                       Ev("ret", "fallback")>>,
          arr |-> FallbackUpscaleArray(img_array, scale)]
    ELSE [events |-> <<Ev("fail", IF r.status = "timeout" THEN "Timeout"
                                  ELSE IF r.status = "spawn" THEN "SpawnError"
                                  ELSE IF r.rc # 0 THEN "NonZeroExit"
                                  ELSE IF exists THEN "ReadOutput"
                                  ELSE "MissingOutput"),
                       Ev("print", "CliProcessingFailed"),
                       Ev("try", "fallback"), Ev("ret", "fallback")>>,
          arr |-> FallbackUpscaleArray(img_array, scale)]

\* a handling that loads output.png whatever the exit status
HandleRun_IgnoresExitStatus(r, exists, out, img_array, scale) ==
    IF r.status = "exit" /\ exists /\ out # CorruptImage
    THEN [events |-> <<Ev("ok", "external"), Ev("ret", "external")>>,
          arr |-> out]
    ELSE [events |-> <<Ev("fail", "MissingOutput"), Ev("print", "OutputNotCreated"),
                       Ev("try", "fallback"), Ev("ret", "fallback")>>,
          arr |-> FallbackUpscaleArray(img_array, scale)]

\* lines 188-209: what _process_with_cli makes of the finished run
HandleRun(r, exists, out, img_array, scale) ==
    IF r.status = "timeout"
    THEN [events |-> <<Ev("fail", "Timeout"), Ev("print", "ProcessingTimeout"),
                       Ev("try", "fallback"), Ev("ret", "fallback")>>,
          arr |-> FallbackUpscaleArray(img_array, scale)]
    ELSE IF r.status = "spawn"
    THEN [events |-> <<Ev("fail", "SpawnError"), Ev("print", "CliProcessingFailed"),
                       Ev("try", "fallback"), Ev("ret", "fallback")>>,
          arr |-> FallbackUpscaleArray(img_array, scale)]
    ELSE IF r.rc # 0
    THEN [events |-> <<Ev("fail", "NonZeroExit"), Ev("print", "CliFailed"),
                       Ev("try", "fallback"), Ev("ret", "fallback")>>,
          arr |-> FallbackUpscaleArray(img_array, scale)]
    ELSE IF exists
    THEN IF out = CorruptImage
         THEN [events |-> <<Ev("fail", "ReadOutput"), Ev("print", "CliProcessingFailed"),
                            Ev("try", "fallback"), Ev("ret", "fallback")>>,
               arr |-> FallbackUpscaleArray(img_array, scale)]
         ELSE [events |-> <<Ev("ok", "external"), Ev("ret", "external")>>,
               arr |-> out]
    ELSE [events |-> <<Ev("fail", "MissingOutput"), Ev("print", "OutputNotCreated"),
                       Ev("try", "fallback"), Ev("ret", "fallback")>>,
          arr |-> FallbackUpscaleArray(img_array, scale)]

\* every exception leaving _process_with_cli handled by the except clause
\* of _process_with_python_api, which calls _process_with_cli again
CatcherOfCli_AlwaysPythonApi(s) == "pyapi_except"

\* where an exception leaving _process_with_cli is caught: the call of line
\* 154 is inside the try of _process_with_python_api, the calls of lines 141
\* and 158 are inside except clauses, so only process_frame catches theirs
CatcherOfCli(s) == IF s = 154 THEN "pyapi_except" ELSE "handler"

\* a handler that catches OS errors only
ProcessFrameCatches_OSErrorOnly(e) == e = "OSError"

\* line 71: except Exception
ProcessFrameCatches(e) == TRUE

\* a handler that returns the input frame when the frame cannot be decoded
ProcessFrameExcept_ReturnsInput(e, c, scale) ==
    LET d == VsFrameToArray(c)
        up == FallbackUpscaleArray(d.arr, scale)
        f == ArrayToVsFrame(up, c)
    IN  IF d.exc # "none" \/ f.exc # "none"
        THEN [events |-> <<Ev("fail", e), Ev("print", "ErrorProcessingFrame")>>,
              res |-> [kind |-> "frame", w |-> c.width, h |-> c.height,
                       src |-> "input"]]
        ELSE [events |-> <<Ev("fail", e), Ev("print", "ErrorProcessingFrame"),
                           Ev("try", "fallback")>>,
              res |-> f.frame]

\* lines 71-74 and 218-223: the handler of process_frame prints, then
\* decodes the frame again, resizes it and encodes the result
ProcessFrameExcept(e, c, scale) ==
    IF ~ProcessFrameCatches(e)
    THEN [events |-> <<Ev("raise", e)>>,
          res |-> [kind |-> "raised", w |-> 0, h |-> 0, src |-> e]]
    ELSE LET d == VsFrameToArray(c)
             up == FallbackUpscaleArray(d.arr, scale)
             f == ArrayToVsFrame(up, c)
         IN  IF d.exc # "none"
             THEN [events |-> <<Ev("fail", e), Ev("print", "ErrorProcessingFrame"),
                                Ev("raise", d.exc)>>,
                   res |-> [kind |-> "raised", w |-> 0, h |-> 0, src |-> d.exc]]
             ELSE IF f.exc # "none"
             THEN [events |-> <<Ev("fail", e), Ev("print", "ErrorProcessingFrame"),
                                Ev("try", "fallback"), Ev("raise", f.exc)>>,
                   res |-> [kind |-> "raised", w |-> 0, h |-> 0, src |-> f.exc]]
             ELSE [events |-> <<Ev("fail", e), Ev("print", "ErrorProcessingFrame"),
                                Ev("try", "fallback")>>,
                   res |-> f.frame]

(***************************************************************************)
(* The per-frame upscale, one action per step of process_frame             *)
(***************************************************************************)
InFlight == {q \in Threads : pc[q] # "idle"}

\* the host requests a frame: ModifyFrame calls process_frame(n, f)
StartFrame(p) ==
    /\ pc[p] = "idle"
    /\ Cardinality(InFlight) < threads
    /\ pc' = [pc EXCEPT ![p] = "decode"]
    /\ UNCHANGED <<cmd, mem, args, upscaler, clip, env, threads, exc, arr, site, tmpdir,
                   run, res, log, fs>>

\* line 63
Decode(p) ==
    /\ pc[p] = "decode"
    /\ LET d == VsFrameToArray(clip)
       IN  IF d.exc # "none"
           THEN /\ exc' = [exc EXCEPT ![p] = d.exc]
                /\ pc' = [pc EXCEPT ![p] = "handler"]
                /\ arr' = arr
                /\ mem' = mem
           ELSE /\ arr' = [arr EXCEPT ![p] = d.arr]
                /\ pc' = [pc EXCEPT ![p] = "probe"]
                /\ exc' = exc
                /\ mem' = [mem EXCEPT !.array[p] =
                                        DecodeSample(clip.format, mem.input)]
    /\ UNCHANGED <<cmd, args, upscaler, clip, env, threads, site, tmpdir, run,
                   res, log, fs>>

\* _process_image_array, lines 135-141: import realcugan
ProcessImageArray(p) ==
    /\ pc[p] = "probe"
    /\ \/ /\ env.realcugan = "ok"
          /\ log' = [log EXCEPT ![p] = Append(@, Ev("try", "native"))]
          /\ pc' = [pc EXCEPT ![p] = "pyapi"]
          /\ UNCHANGED <<exc, site>>
       \/ /\ env.realcugan = "missing"
          /\ log' = [log EXCEPT ![p] = @ \o <<Ev("try", "native"),
                                               Ev("fail", "ImportError")>>]
          /\ site' = [site EXCEPT ![p] = 141]
          /\ pc' = [pc EXCEPT ![p] = "cli_enter"]
          /\ UNCHANGED exc
       \/ /\ env.realcugan = "broken"
          /\ log' = [log EXCEPT ![p] = Append(@, Ev("try", "native"))]
          /\ exc' = [exc EXCEPT ![p] = "RuntimeError"]
          /\ pc' = [pc EXCEPT ![p] = "handler"]
          /\ UNCHANGED site
    /\ UNCHANGED <<cmd, mem, args, upscaler, clip, env, threads, arr, tmpdir, run, res, fs>>

\* _process_with_python_api, lines 145-154: import torch, then the
\* placeholder that calls the command line tool
ProcessWithPythonApi(p) ==
    /\ pc[p] = "pyapi"
    /\ \/ /\ env.torch = "ok"
          /\ log' = [log EXCEPT ![p] = Append(@, Ev("delegate", "cli"))]
          /\ site' = [site EXCEPT ![p] = 154]
          /\ pc' = [pc EXCEPT ![p] = "cli_enter"]
          /\ UNCHANGED exc
       \/ /\ env.torch = "missing"
          /\ exc' = [exc EXCEPT ![p] = "ImportError"]
          /\ pc' = [pc EXCEPT ![p] = "pyapi_except"]
          /\ UNCHANGED <<log, site>>
    /\ UNCHANGED <<cmd, mem, args, upscaler, clip, env, threads, arr, tmpdir, run, res, fs>>

\* lines 156-158: except Exception of _process_with_python_api
PythonApiExcept(p) ==
    /\ pc[p] = "pyapi_except"
    /\ log' = [log EXCEPT ![p] = @ \o <<Ev("fail", exc[p]),
                                         Ev("print", "PythonApiFailed")>>]
    /\ exc' = [exc EXCEPT ![p] = "none"]
    /\ site' = [site EXCEPT ![p] = 158]
    /\ pc' = [pc EXCEPT ![p] = "cli_enter"]
    /\ UNCHANGED <<cmd, mem, args, upscaler, clip, env, threads, arr, tmpdir, run, res, fs>>

\* line 163: with tempfile.TemporaryDirectory() as temp_dir
CliEnter(p) ==
    /\ pc[p] = "cli_enter"
    /\ \E d \in Mkdtemp(fs) :
          /\ tmpdir' = [tmpdir EXCEPT ![p] = d]
          /\ fs' = [fs EXCEPT ![d] = [exists |-> TRUE, owner |-> p,
                                      inp |-> FALSE, out |-> NoArr]]
    /\ log' = [log EXCEPT ![p] = Append(@, Ev("try", "external"))]
    /\ pc' = [pc EXCEPT ![p] = "cli_save"]
    /\ UNCHANGED <<cmd, mem, args, upscaler, clip, env, threads, exc, arr, site, run, res>>

\* lines 168-169: pil_img.save(input_path), outside the try of line 188
CliSave(p) ==
    /\ pc[p] = "cli_save"
    /\ \/ /\ fs[tmpdir[p]].exists
          /\ fs' = [fs EXCEPT ![tmpdir[p]].inp = TRUE, ![tmpdir[p]].owner = p]
          /\ pc' = [pc EXCEPT ![p] = "cli_run"]
          /\ UNCHANGED <<exc, tmpdir, log>>
       \/ /\ fs' = Cleanup(fs, tmpdir[p])
          /\ tmpdir' = [tmpdir EXCEPT ![p] = 0]
          /\ exc' = [exc EXCEPT ![p] = "OSError"]
          /\ log' = [log EXCEPT ![p] = Append(@, Ev("raise", "cli"))]
          /\ pc' = [pc EXCEPT ![p] = CatcherOfCli(site[p])]
    /\ UNCHANGED <<cmd, mem, args, upscaler, clip, env, threads, arr, site, run, res>>

\* lines 171-190: the command is built and subprocess.run(cmd, ...,
\* timeout=300) is called; the executable may have written output.png
\* whatever its exit, and before it was timed out
CliRun(p) ==
    /\ pc[p] = "cli_run"
    /\ cmd' = [cmd EXCEPT ![p] = BuildCmd(upscaler, tmpdir[p])]
    /\ \E r \in RunResults :
          /\ run' = [run EXCEPT ![p] = r]
          /\ \/ fs' = fs
             \/ /\ r.status \in {"exit", "timeout"}
                /\ fs[tmpdir[p]].exists
                /\ \E img \in ExeImages(arr[p]) :
                      /\ (r.status = "timeout" \/ r.rc # 0)
                            => img.ch = 3 /\ img.h = arr[p].h * upscaler.scale
                      /\ fs' = [fs EXCEPT ![tmpdir[p]].out = img]
    /\ log' = [log EXCEPT ![p] = Append(@, Ev("exec", "cli"))]
    /\ pc' = [pc EXCEPT ![p] = "cli_handle"]
    /\ UNCHANGED <<mem, args, upscaler, clip, env, threads, exc, arr, site, tmpdir, res>>

\* lines 192-209 and the exit of the with block
CliHandle(p) ==
    /\ pc[p] = "cli_handle"
    /\ LET h == HandleRun(run[p], OutputExists(fs, tmpdir[p]),
                          OutputOf(fs, tmpdir[p]), arr[p], upscaler.scale)
       IN  /\ arr' = [arr EXCEPT ![p] = h.arr]
           /\ log' = [log EXCEPT ![p] = @ \o h.events]
           \* the samples of the loaded image are whatever the executable
           \* wrote; the resize of a flat image keeps its sample
           /\ IF h.arr.src = "external"
              THEN \E v \in SampleEnds("RGB24") :
                      mem' = [mem EXCEPT !.array[p] = v]
              ELSE mem' = mem
    /\ fs' = Cleanup(fs, tmpdir[p])
    /\ tmpdir' = [tmpdir EXCEPT ![p] = 0]
    /\ run' = [run EXCEPT ![p] = NoRun]
    /\ cmd' = [cmd EXCEPT ![p] = <<>>]
    /\ pc' = [pc EXCEPT ![p] = "encode"]
    /\ UNCHANGED <<args, upscaler, clip, env, threads, exc, site, res>>

\* line 69
Encode(p) ==
    /\ pc[p] = "encode"
    /\ LET f == ArrayToVsFrame(arr[p], clip)
       IN  IF f.exc # "none"
           THEN /\ exc' = [exc EXCEPT ![p] = f.exc]
                /\ pc' = [pc EXCEPT ![p] = "handler"]
                /\ res' = res
                /\ mem' = mem
           ELSE /\ res' = [res EXCEPT ![p] = f.frame]
                /\ pc' = [pc EXCEPT ![p] = "done"]
                /\ exc' = exc
                /\ mem' = CopyToNewFrame(mem, p, clip.format, mem.array[p])
    /\ UNCHANGED <<cmd, args, upscaler, clip, env, threads, arr, site, tmpdir, run,
                   log, fs>>

\* a handler that moves the upscaler to the CPU after a failure
Handler_SwitchesToCpu(p) ==
    /\ pc[p] = "handler"
    /\ LET h == ProcessFrameExcept(exc[p], clip, upscaler.scale)
       IN  /\ res' = [res EXCEPT ![p] = h.res]
           /\ log' = [log EXCEPT ![p] = @ \o h.events]
           /\ IF h.res.kind = "frame"
              THEN mem' = CopyToNewFrame(mem, p, clip.format,
                                         DecodeSample(clip.format, mem.input))
              ELSE mem' = mem
    /\ upscaler' = [upscaler EXCEPT !.device_id = CpuDevice]
    /\ exc' = [exc EXCEPT ![p] = "none"]
    /\ pc' = [pc EXCEPT ![p] = "done"]
    /\ UNCHANGED <<cmd, args, clip, env, threads, arr, site, tmpdir, run, fs>>

\* lines 71-74
Handler(p) ==
    /\ pc[p] = "handler"
    /\ LET h == ProcessFrameExcept(exc[p], clip, upscaler.scale)
       IN  /\ res' = [res EXCEPT ![p] = h.res]
           /\ log' = [log EXCEPT ![p] = @ \o h.events]
           \* _fallback_upscale decodes the frame again and encodes the resize
           /\ IF h.res.kind = "frame"
              THEN mem' = CopyToNewFrame(mem, p, clip.format,
                                         DecodeSample(clip.format, mem.input))
              ELSE mem' = mem
    /\ exc' = [exc EXCEPT ![p] = "none"]
    /\ pc' = [pc EXCEPT ![p] = "done"]
    /\ UNCHANGED <<cmd, args, upscaler, clip, env, threads, arr, site, tmpdir, run, fs>>

\* the host takes the returned frame (or the error); the invocation is over
Deliver(p) ==
    /\ pc[p] = "done"
    /\ pc' = [pc EXCEPT ![p] = "idle"]
    /\ arr' = [arr EXCEPT ![p] = NoArr]
    /\ site' = [site EXCEPT ![p] = 0]
    /\ res' = [res EXCEPT ![p] = NoRes]
    /\ log' = [log EXCEPT ![p] = <<>>]
    /\ mem' = [mem EXCEPT !.array[p] = 0, !.output[p] = NoFrame]
    /\ UNCHANGED <<cmd, args, upscaler, clip, env, threads, exc, tmpdir, run, fs>>

Next ==
    \E p \in Threads :
        \/ StartFrame(p)
        \/ Decode(p)
        \/ ProcessImageArray(p)
        \/ ProcessWithPythonApi(p)
        \/ PythonApiExcept(p)
        \/ CliEnter(p)
        \/ CliSave(p)
        \/ CliRun(p)
        \/ CliHandle(p)
        \/ Encode(p)
        \/ Handler(p)
        \/ Deliver(p)

Environments ==
    [realcugan : {"ok", "missing", "broken"}, torch : {"ok", "missing"}]

Clips == [width : 1..MaxDim, height : 1..MaxDim, format : Formats]

\* the upscaler has been constructed; the host requests one frame at a time
Init ==
    /\ \E a \in PipelineArgs :
          /\ args = [a EXCEPT !.via = "real_cugan"]
          /\ upscaler = real_cugan(a)
    /\ clip \in Clips
    /\ env \in Environments
    /\ threads = 1
    /\ InitFrames
    /\ InitMem(SampleEnds(clip.format))

Spec == Init /\ [][Next]_vars

\* the host requests frames from several threads, on an installation
\* without torch
InitConcurrent ==
    /\ \E a \in PipelineArgs :
          /\ a.model_path = EmptyPath /\ a.scale = 2
          /\ args = [a EXCEPT !.via = "real_cugan"]
          /\ upscaler = real_cugan(a)
    /\ clip = [width |-> 1, height |-> 1, format |-> "RGB24"]
    /\ env \in {e \in Environments : e.realcugan # "broken" /\ e.torch = "missing"}
    /\ threads = NumThreads
    /\ InitFrames
    /\ InitMem({MaxSample})

SpecConcurrent == InitConcurrent /\ [][Next]_vars

\* the steps of an invocation of process_frame that has begun
FrameStep(p) ==
    \/ Decode(p)
    \/ ProcessImageArray(p)
    \/ ProcessWithPythonApi(p)
    \/ PythonApiExcept(p)
    \/ CliEnter(p)
    \/ CliSave(p)
    \/ CliRun(p)
    \/ CliHandle(p)
    \/ Encode(p)
    \/ Handler(p)

\* a thread inside process_frame keeps executing, and subprocess.run returns
\* (exit, failure to start, or the timeout of 300 seconds); the host may stop
\* requesting frames
SpecFair == Init /\ [][Next]_vars /\ \A p \in Threads : WF_vars(FrameStep(p))

(***************************************************************************)
(* The frame codec on its own (specification SpecCodec): a frame is        *)
(* decoded and the array is encoded back with the frame's own format       *)
(***************************************************************************)
InitCodec ==
    /\ \E a \in PipelineArgs :
          /\ args = [a EXCEPT !.via = "real_cugan"]
          /\ upscaler = real_cugan(a)
    /\ clip \in Clips
    /\ env = [realcugan |-> "missing", torch |-> "missing"]
    /\ threads = 1
    /\ InitFrames
    /\ InitMem(Samples(clip.format))

\* img_array = self._vs_frame_to_array(f)
CodecDecode(p) ==
    /\ pc[p] = "idle"
    /\ p <= threads
    /\ LET d == VsFrameToArray(clip)
       IN  IF d.exc # "none"
           THEN /\ res' = [res EXCEPT ![p] = [kind |-> "raised", w |-> 0,
                                              h |-> 0, src |-> d.exc]]
                /\ pc' = [pc EXCEPT ![p] = "codec_done"]
                /\ UNCHANGED <<arr, mem>>
           ELSE /\ arr' = [arr EXCEPT ![p] = d.arr]
                /\ mem' = [mem EXCEPT !.array[p] =
                                        DecodeSample(clip.format, mem.input)]
                /\ pc' = [pc EXCEPT ![p] = "codec_encode"]
                /\ res' = res
    /\ UNCHANGED <<cmd, args, upscaler, clip, env, threads, exc, site, tmpdir,
                   run, log, fs>>

\* self._array_to_vs_frame(img_array, f)
CodecEncode(p) ==
    /\ pc[p] = "codec_encode"
    /\ LET f == ArrayToVsFrame(arr[p], clip)
       IN  IF f.exc # "none"
           THEN /\ res' = [res EXCEPT ![p] = [kind |-> "raised", w |-> 0,
                                              h |-> 0, src |-> f.exc]]
                /\ mem' = mem
           ELSE /\ res' = [res EXCEPT ![p] = f.frame]
                /\ mem' = CopyToNewFrame(mem, p, clip.format, mem.array[p])
    /\ pc' = [pc EXCEPT ![p] = "codec_done"]
    /\ UNCHANGED <<cmd, args, upscaler, clip, env, threads, exc, arr, site,
                   tmpdir, run, log, fs>>

NextCodec == \E p \in Threads : CodecDecode(p) \/ CodecEncode(p)

SpecCodec == InitCodec /\ [][NextCodec]_vars

(***************************************************************************)
(* Properties                                                              *)
(***************************************************************************)
Has(l, e) == \E k \in 1..Len(l) : l[k] = e

CountOf(l, e) == Cardinality({k \in 1..Len(l) : l[k] = e})

NumPrints(l) == Cardinality({k \in 1..Len(l) : l[k].t = "print"})

\* the four ways the external process fails
ExternalFailures == {"Timeout", "NonZeroExit", "MissingOutput", "SpawnError"}

ExternalFailed(l) ==
    \E k \in 1..Len(l) : l[k].t = "fail" /\ l[k].r \in ExternalFailures

ScaledSize(f) ==
    /\ f.w = clip.width * upscaler.scale
    /\ f.h = clip.height * upscaler.scale

\* C1: every frame process_frame returns has dimensions
\* (width * scale, height * scale), whichever attempt produced it.
C1_OutputDimensions ==
    \A p \in Threads :
        (pc[p] = "done" /\ res[p].kind = "frame") => ScaledSize(res[p])

\* C2: when the frame decodes (three planes), no exception of the native
\* attempt, the external attempt or the resize leaves process_frame: the call
\* returns a frame, the external result or the resized input.
C2_FailureContainment ==
    \A p \in Threads :
        Planes(clip.format) = 3 =>
            /\ res[p].kind # "raised"
            /\ pc[p] = "done" =>
                  res[p].kind = "frame" /\ res[p].src \in {"external", "fallback"}

\* C2 witness: an exception raised while writing the input was contained and
\* a frame was returned
C2_Witness ==
    \E p \in Threads :
        /\ pc[p] = "done"
        /\ Has(log[p], Ev("fail", "OSError"))
        /\ res[p].kind = "frame"

AttemptRank(e) ==
    IF e.r = "native" THEN 1 ELSE IF e.r = "external" THEN 2 ELSE 3

\* attempts never go back in the order native, external, fallback
InOrder(l) ==
    \A i, j \in 1..Len(l) :
        (i < j /\ l[i].t = "try" /\ l[j].t = "try")
            => AttemptRank(l[i]) <= AttemptRank(l[j])

\* an attempt after the first one starts right after a failure was signalled
\* (and, where the code prints, its diagnostic), or after the native
\* placeholder handed over to the command line tool
StartedOnFailure(l) ==
    \A j \in 2..Len(l) :
        (l[j].t = "try" /\ l[j].r # "native")
            => \/ l[j-1].t \in {"fail", "delegate"}
               \/ l[j-1].t = "print" /\ j > 2 /\ l[j-2].t = "fail"

\* an attempt has produced its result: the output of the executable was
\* loaded, or the resize inside _process_with_cli was returned
Succeeded(e) == e = Ev("ok", "external") \/ e = Ev("ret", "fallback")

LaterWork(e) == e.t \in {"try", "exec"}

\* C3 as claimed: the attempts run in order, a later attempt starts only on a
\* failure, and once an attempt succeeded no later attempt (run of the
\* executable, resize) is performed for the frame.
C3_FirstSuccessTerminates ==
    \A p \in Threads :
        /\ InOrder(log[p])
        /\ StartedOnFailure(log[p])
        /\ \A i, j \in 1..Len(log[p]) :
              (i < j /\ Succeeded(log[p][i])) => ~LaterWork(log[p][j])

\* C3 as amended: the same, except that when encoding the loaded output of
\* the executable raises (IndexError: it is no three-channel array), the
\* handler of process_frame still performs one resize.
C3_FirstSuccessTerminatesUnlessEncodeFails ==
    \A p \in Threads :
        /\ InOrder(log[p])
        /\ StartedOnFailure(log[p])
        /\ \A i, j \in 1..Len(log[p]) :
              (i < j /\ Succeeded(log[p][i]) /\ LaterWork(log[p][j]))
                  => /\ log[p][i] = Ev("ok", "external")
                     /\ log[p][j] = Ev("try", "fallback")
                     /\ j = Len(log[p])
                     /\ log[p][j-2] = Ev("fail", "IndexError")
                     /\ log[p][j-1] = Ev("print", "ErrorProcessingFrame")

\* C3 witness: the executable's output was loaded and returned as the frame,
\* with no resize
C3_Witness ==
    \E p \in Threads :
        /\ pc[p] = "done"
        /\ Has(log[p], Ev("ok", "external"))
        /\ res[p].src = "external"
        /\ ~Has(log[p], Ev("try", "fallback"))

\* C4: within one process_frame call _process_with_cli, and the executable it
\* runs, is attempted at most once.
C4_ExternalAtMostOnce ==
    \A p \in Threads :
        /\ CountOf(log[p], Ev("try", "external")) <= 1
        /\ CountOf(log[p], Ev("exec", "cli")) <= 1

\* C5 as claimed: when the external process fails (timeout, non-zero exit,
\* missing output, spawn error), process_frame returns a frame of the scaled
\* size and exactly one diagnostic is printed during the call.
C5_OneDiagnosticOnExternalFailure ==
    \A p \in Threads :
        (pc[p] = "done" /\ ExternalFailed(log[p]))
            => /\ res[p].kind = "frame" /\ ScaledSize(res[p])
               /\ NumPrints(log[p]) = 1

\* the diagnostics _process_with_cli prints
CliDiagnostics ==
    {"CliFailed", "OutputNotCreated", "ProcessingTimeout", "CliProcessingFailed"}

\* C5 as amended: ... returns a frame of the scaled size and exactly one
\* diagnostic of the external failure is printed; it is the only diagnostic
\* of the call unless _process_with_cli was called from the except clause of
\* _process_with_python_api (line 158), which has printed "Python API
\* failed" before: then there are exactly two.
C5_OneExternalDiagnostic ==
    \A p \in Threads :
        (pc[p] = "done" /\ ExternalFailed(log[p]))
            => /\ res[p].kind = "frame" /\ ScaledSize(res[p])
               /\ Cardinality({k \in 1..Len(log[p]) :
                      log[p][k].t = "print" /\ log[p][k].r \in CliDiagnostics}) = 1
               /\ NumPrints(log[p]) = IF site[p] = 158 THEN 2 ELSE 1
               /\ site[p] = 158 <=> Has(log[p], Ev("print", "PythonApiFailed"))

\* C5 witness: the native path raised, the external process failed, and two
\* diagnostics were printed
C5_Witness ==
    \E p \in Threads :
        /\ pc[p] = "done"
        /\ ExternalFailed(log[p])
        /\ site[p] = 158
        /\ NumPrints(log[p]) = 2
        /\ ScaledSize(res[p])

\* C6: every failure that makes process_frame go on to a later attempt is
\* followed by a printed diagnostic.
C6_EveryTransitionDiagnosed ==
    \A p \in Threads :
        \A k \in 1..Len(log[p]) :
            log[p][k].t = "fail"
                => k < Len(log[p]) /\ log[p][k+1].t = "print"

\* C7 as claimed: _process_with_cli substitutes no result: on a failed run
\* it raises to its caller and never returns the resized buffer.
C7_ExternalNeverSubstitutes ==
    \A p \in Threads :
        /\ ~Has(log[p], Ev("ret", "fallback"))
        /\ \A k \in 1..Len(log[p]) :
              (log[p][k].t = "fail" /\ log[p][k].r \in ExternalFailures)
                  => k < Len(log[p]) /\ log[p][k+1].t = "raise"

\* C7 as amended: on a failed run (timeout, non-zero exit, missing output,
\* spawn error) _process_with_cli prints a diagnostic and itself returns the
\* input resized by the configured scale; it raises nothing to its caller.
C7_ExternalSubstitutesResize ==
    \A p \in Threads :
        /\ \A k \in 1..Len(log[p]) :
              (log[p][k].t = "fail" /\ log[p][k].r \in ExternalFailures)
                  => /\ k + 3 <= Len(log[p])
                     /\ log[p][k+1].t = "print"
                     /\ log[p][k+2] = Ev("try", "fallback")
                     /\ log[p][k+3] = Ev("ret", "fallback")
        /\ (pc[p] = "encode" /\ ExternalFailed(log[p]))
              => arr[p] = [h |-> clip.height * upscaler.scale,
                           w |-> clip.width * upscaler.scale,
                           ch |-> 3, src |-> "fallback"]

\* C7 witness: _process_with_cli has returned the resized input after a timeout
C7_Witness ==
    \E p \in Threads :
        /\ pc[p] = "encode"
        /\ Has(log[p], Ev("fail", "Timeout"))
        /\ arr[p].src = "fallback"

CliPositions == {"cli_save", "cli_run", "cli_handle"}

\* C8: once _process_with_cli has returned or raised, its temporary
\* directory and both files in it no longer exist.
C8_TempFilesRemoved ==
    /\ \A p \in Threads :
          pc[p] \notin CliPositions
              => /\ tmpdir[p] = 0
                 /\ \A d \in DirNames : ~(fs[d].exists /\ fs[d].owner = p)
    /\ \A d \in DirNames :
          fs[d].exists => \E p \in Threads : pc[p] \in CliPositions /\ tmpdir[p] = d

\* C8 witness: the executable ran and wrote its output, the call returned,
\* and no directory is left
C8_Witness ==
    \E p \in Threads :
        /\ pc[p] = "encode"
        /\ Has(log[p], Ev("ok", "external"))
        /\ \A d \in DirNames : fs[d] = NoDir

\* C9: concurrent calls of _process_with_cli use distinct directories, and
\* the directory of a running call exists and holds only that call's files.
C9_NoPathCollision ==
    /\ \A p, q \in Threads :
          (p # q /\ tmpdir[p] # 0 /\ tmpdir[q] # 0) => tmpdir[p] # tmpdir[q]
    /\ \A p \in Threads :
          pc[p] \in CliPositions
              => /\ tmpdir[p] \in DirNames
                 /\ fs[tmpdir[p]].exists
                 /\ fs[tmpdir[p]].owner = p
                 /\ pc[p] \in {"cli_run", "cli_handle"} => fs[tmpdir[p]].inp

\* C9 witness: two calls are inside _process_with_cli at once, both past
\* the run of the executable
C9_Witness ==
    \E p, q \in Threads :
        /\ p # q
        /\ pc[p] = "cli_handle" /\ pc[q] = "cli_handle"
        /\ fs[tmpdir[p]].out # NoArr /\ fs[tmpdir[q]].out # NoArr

Constructed == args.via # "pending"

\* the resolution as the specification words it
ClaimedScale(model_path, scale) ==
    IF Contains(model_path, Marker2x) THEN 2
    ELSE IF Contains(model_path, Marker4x) THEN 4
    ELSE scale

ClaimedNoise(model_path) ==
    IF Contains(model_path, MarkerDenoise3x) THEN 3
    ELSE IF Contains(model_path, MarkerDenoise1x) THEN 1
    ELSE -1

\* C10 as claimed: scale and noise level are the stated function of the model
\* identifier and the caller's scale; "Real-CUGAN_up2x-latest-denoise3x.pth"
\* gives scale 2, noise 3 and "x4-conservative.pth" gives scale 4, noise -1.
C10_ResolutionWithExamples ==
    Constructed =>
        /\ upscaler.scale = ClaimedScale(upscaler.model_path, args.scale)
        /\ upscaler.noise = ClaimedNoise(upscaler.model_path)
        /\ upscaler.model_path = Path2xDenoise3x
              => upscaler.scale = 2 /\ upscaler.noise = 3
        /\ upscaler.model_path = PathX4Conservative
              => upscaler.scale = 4 /\ upscaler.noise = -1

\* C10 as amended: the same function; "x4-conservative.pth" holds no "4x"
\* marker, so it gives the caller's scale (4 only when the caller passes 4)
\* and noise -1.
C10_Resolution ==
    Constructed =>
        /\ upscaler.scale = ClaimedScale(upscaler.model_path, args.scale)
        /\ upscaler.noise = ClaimedNoise(upscaler.model_path)
        /\ upscaler.model_path = Path2xDenoise3x
              => upscaler.scale = 2 /\ upscaler.noise = 3
        /\ upscaler.model_path = PathX4Conservative
              => upscaler.scale = args.scale /\ upscaler.noise = -1

\* C10 witness: "x4-conservative.pth" constructed with the caller's scale 2
C10_Witness ==
    /\ Constructed
    /\ upscaler.model_path = PathX4Conservative
    /\ args.scale = 2
    /\ upscaler.scale = 2
    /\ upscaler.noise = -1

\* a model path holding none of the markers __init__ looks for
Unmarked(model_path) ==
    /\ ~Contains(model_path, Marker2x)
    /\ ~Contains(model_path, Marker4x)
    /\ ~Contains(model_path, MarkerDenoise3x)
    /\ ~Contains(model_path, MarkerDenoise1x)

\* C11: when the model path given to real_cugan is empty or holds none of the
\* markers, the upscaler's scale is the scale the caller supplied and its
\* noise level is the noise the caller supplied.
C11_UnmarkedPathKeepsCallerValues ==
    (Constructed /\ args.via = "real_cugan" /\ Unmarked(args.model_path)) =>
        /\ upscaler.scale = args.scale
        /\ upscaler.noise = args.noise

\* C12: after construction no step of any per-frame invocation, failing or
\* falling back or not, changes the upscaler's configuration (device_id,
\* scale, noise level, tile size, TTA flag): every frame observes the values
\* fixed at construction.
C12_ConfigNeverModified == [][upscaler' = upscaler]_vars

\* C12 witness: a frame was completed by the fallback after two diagnosed
\* failures, under the configuration fixed at construction
C12_Witness ==
    \E p \in Threads :
        /\ pc[p] = "done"
        /\ res[p].kind = "frame" /\ res[p].src = "fallback"
        /\ NumPrints(log[p]) >= 2
        /\ upscaler = real_cugan([args EXCEPT !.via = "pending"])

C15_FallbackResizeShape ==
    \A p \in Threads :
        /\ arr[p].src = "fallback" =>
              /\ upscaler.scale \in {2, 4}
              /\ arr[p].h = upscaler.scale * clip.height
              /\ arr[p].w = upscaler.scale * clip.width
              /\ arr[p].ch = 3
        /\ (pc[p] = "done" /\ Has(log[p], Ev("try", "fallback"))) =>
              /\ res[p].kind = "frame"
              /\ res[p].src = "fallback"
              /\ res[p].h = upscaler.scale * clip.height
              /\ res[p].w = upscaler.scale * clip.width

\* C15 witness: a frame that is not square was resized by the fallback with
\* scale 4
C15_Witness ==
    \E p \in Threads :
        /\ arr[p].src = "fallback"
        /\ clip.width # clip.height
        /\ upscaler.scale = 4
        /\ pc[p] = "done"
        /\ res[p].src = "fallback"

\* C14: decoding a frame and encoding the array back with the same format
\* gives a frame of the same dimensions; its samples equal the original's
\* for the integer formats and differ from the original's by at most 1/255
\* of full range for the float format (samples n/FloatDen in [0, 1]).
C14_RoundTrip ==
    \A p \in Threads :
        (pc[p] = "codec_done" /\ res[p].kind = "frame") =>
            /\ res[p].w = clip.width
            /\ res[p].h = clip.height
            /\ clip.format # "RGBS" => mem.output[p].sample = mem.input
            /\ clip.format = "RGBS" =>
                  /\ (mem.output[p].sample - mem.input) * MaxSample <= FloatDen
                  /\ (mem.input - mem.output[p].sample) * MaxSample <= FloatDen

\* the step in which _process_with_cli returns
CliReturns(p) == pc[p] = "cli_handle" /\ pc'[p] = "encode"

\* the step in which process_frame returns or raises
FrameReturns(p) == pc[p] \in {"encode", "handler"} /\ pc'[p] = "done"

Numeral(n) ==
    CASE n = -1 -> "-1"
      [] n = 0 -> "0"
      [] n = 1 -> "1"
      [] n = 2 -> "2"
      [] n = 3 -> "3"
      [] n = 4 -> "4"
      [] n = 256 -> "256"

HasFlag(c, flag) == \E i \in 1..Len(c) : c[i] = flag

\* the flag occurs once, followed by the value
HasOption(c, flag, value) ==
    /\ \E i \in 1..(Len(c) - 1) : c[i] = flag /\ c[i + 1] = value
    /\ Cardinality({i \in 1..Len(c) : c[i] = flag}) = 1

\* the names _process_with_cli gives the two image files
IsInputPath(t) == \E d \in DirNames : t = PathJoin(TempDirPath(d), "input.png")

IsOutputPath(t) == \E d \in DirNames : t = PathJoin(TempDirPath(d), "output.png")

\* C17: every command line built for a configuration holds -i <input>,
\* -o <output>, -s <scale>, -n <noise level> and -t <tile size> of that
\* configuration; it holds -x if and only if TTA is enabled, and
\* -g <device_id> if and only if device_id >= 0 (no -g for device_id = -1).
C17_CommandLine ==
    \A p \in Threads :
        cmd[p] # <<>> =>
            /\ \E t \in {cmd[p][i] : i \in 1..Len(cmd[p])} :
                  IsInputPath(t) /\ HasOption(cmd[p], "-i", t)
            /\ \E t \in {cmd[p][i] : i \in 1..Len(cmd[p])} :
                  IsOutputPath(t) /\ HasOption(cmd[p], "-o", t)
            /\ HasOption(cmd[p], "-s", Numeral(upscaler.scale))
            /\ HasOption(cmd[p], "-n", Numeral(upscaler.noise))
            /\ HasOption(cmd[p], "-t", Numeral(upscaler.tile))
            /\ HasFlag(cmd[p], "-x") <=> upscaler.tta_mode # 0
            /\ HasFlag(cmd[p], "-g") <=> upscaler.device_id >= 0
            /\ upscaler.device_id >= 0 =>
                  HasOption(cmd[p], "-g", Numeral(upscaler.device_id))

\* C17 witness: a command line was built for the CPU (device_id = -1) with
\* TTA enabled
C17_Witness ==
    /\ cmd[1] # <<>>
    /\ upscaler.device_id = CpuDevice
    /\ upscaler.tta_mode # 0
    /\ HasFlag(cmd[1], "-x")
    /\ ~HasFlag(cmd[1], "-g")

\* C18: no step of the per-frame upscale, on any path (success, external
\* failure, fallback, handler of process_frame), writes the planes of the
\* input frame, and every frame returned is a newly allocated one, never
\* the input frame.
C18_InputFrameUntouched ==
    /\ [][mem'.input = mem.input]_vars
    /\ [](\A p \in Threads :
            (pc[p] = "done" /\ res[p].kind = "frame") =>
                mem.output[p].id = "new")

\* C18 witness: a frame was returned whose samples differ from those of the
\* input frame, which still holds its full-scale samples
C18_Witness ==
    \E p \in Threads :
        /\ pc[p] = "done"
        /\ res[p].kind = "frame"
        /\ mem.output[p].id = "new"
        /\ mem.input = MaxSample
        /\ mem.output[p].sample # mem.input

\* C19: every invocation of the per-frame upscale that has begun eventually
\* returns a frame or raises, given that the external process exits or is
\* timed out; the chain of attempts has no cycle: per frame there are at most
\* two entries into the command-line path, one run of the executable and one
\* fallback resize.
C19_Terminates ==
    /\ \A p \in Threads : (pc[p] = "decode") ~> (pc[p] = "done")
    /\ [](\A p \in Threads :
            /\ CountOf(log[p], Ev("try", "external")) <= 2
            /\ CountOf(log[p], Ev("exec", "cli")) <= 1
            /\ CountOf(log[p], Ev("try", "fallback")) <= 1)

\* C19 witness: an invocation ended after the longest chain: the native
\* attempt handed over to the command-line path, which was entered twice,
\* ran the executable once and ended in a fallback resize
C19_Witness ==
    \E p \in Threads :
        /\ pc[p] = "done"
        /\ Has(log[p], Ev("try", "native"))
        /\ CountOf(log[p], Ev("try", "external")) = 2
        /\ CountOf(log[p], Ev("exec", "cli")) = 1
        /\ CountOf(log[p], Ev("try", "fallback")) = 1

====
